---- MODULE Spec2Model ----
(***************************************************************************)
(* A model of train.py: the vocabulary builder, the audio loader, the      *)
(* feature/label encoder, the padding collator and the decode step of the  *)
(* metric.  Text is a sequence of one-character strings; a Python dict is  *)
(* a function whose DOMAIN is its key set; a float32 is a dyadic rational  *)
(* [m, e] standing for m * 2^e.                                            *)
(***************************************************************************)
EXTENDS Integers, Sequences, FiniteSets, TLC

\* ------------------------------------------------------------------ bounds

\* Records per split of the raw dataset.
MaxTranscripts == 2

\* Samples per raw PCM file of the audio loader's own specification.
MaxSamples == 2

\* Records per split handed to prepare_dataset in its own specification.
MaxLoaded == 4

\* Examples per collated batch, and the lengths of their two sequences, in
\* the collator's own specification.
MaxBatch == 2
MaxInputLen == 2
MaxLabelLen == 2

\* Examples per call and calls of the collator under the Trainer.
MaxCallBatch == 2
MaxCalls == 3

\* Frames of logits and label positions handed to compute_metrics.
MaxFrames == 2
MaxLabels == 2

\* ------------------------------------------------------------ small helpers

Range(s) == {s[i] : i \in 1..Len(s)}

RECURSIVE Pow2(_)
Pow2(n) == IF n <= 0 THEN 1 ELSE 2 * Pow2(n - 1)

Max(a, b) == IF a >= b THEN a ELSE b

\* The position of x in the list s (x occurs in s).
IndexOf(s, x) == CHOOSE i \in 1..Len(s) : s[i] = x

SeqsUpTo(S, n) == UNION {[1..k -> S] : k \in 0..n}

\* Python dict primitives: d[k] = v, del d[k], len(d).
DictSet(d, k, v) == [x \in (DOMAIN d) \cup {k} |-> IF x = k THEN v ELSE d[x]]
DictDel(d, k) == [x \in (DOMAIN d) \ {k} |-> d[x]]
DictLen(d) == Cardinality(DOMAIN d)
EmptyDict == [x \in {} |-> 0]

\* ------------------------------------------------------- program constants

\* The file name make_vocab opens for writing.
VocabFile == "vocab.json"
\* The reserved symbols handed to the tokenizer.
UnkToken == "[UNK]"
PadToken == "[PAD]"
DelimToken == "|"
\* The sampling rate the loader reports and the feature extractor expects.
SamplingRate == 16000
\* The batch size of the dataset map that runs prepare_dataset.
PrepareBatchSize == 4

\* ------------------------------------------------------------ input domains

\* Transcripts the raw dataset draws from: empty, with a space, and with the
\* character "|" and no space.
Corpus == { <<>>, <<"b", " ", "a">>, <<"a", "|">> }

\* Values args["vocab_path"] is configured with.
VocabPaths == {"vocab.json", "data/vocab.json"}

\* A vocabulary file left by an earlier run.
OldVocab == [c \in {"a", "|", "[UNK]", "[PAD]"} |->
                CASE c = "a" -> 0 [] c = "|" -> 1 [] c = "[UNK]" -> 2 [] OTHER -> 3]

AudioPath == "a.pcm"
\* The raw PCM bytes of the pipeline's audio file: samples -32768 and 32767.
PipelineAudio == <<0, 128, 255, 127>>

RawRecord(t) == [audio_path |-> AudioPath, transcript |-> t]

RawSplits == {[i \in 1..Len(ts) |-> RawRecord(ts[i])] :
                 ts \in UNION {[1..n -> Corpus] : n \in 1..MaxTranscripts}}

VARIABLES
    args,           \* the loaded config: make_vocab, vocab_path
    files,          \* JSON files on disk: path -> [exists, content]
    audio_files,    \* raw PCM files on disk: path -> bytes
    dataset_train,  \* the train split, as the maps of train() rewrite it
    dataset_test,   \* the test split
    vocab_list,     \* make_vocab's local vocab_list (enumeration order)
    vocab_dict,     \* make_vocab's local vocab_dict
    written_file,   \* the path make_vocab has written, "" before
    tokenizer,      \* the Wav2Vec2CTCTokenizer, once constructed
    pc,             \* where train() stands
    err,            \* the exception that ended train(), "none" otherwise
    collator,       \* the DataCollatorCTCWithPadding object, once constructed
    collated,       \* the batch the collator returned last
    call_log,       \* the collator calls so far: [features, returned] each
    eval_pred,      \* the EvalPrediction handed to compute_metrics
    metric_out      \* what compute_metrics decoded and returned

vars == <<args, files, audio_files, dataset_train, dataset_test, vocab_list,
          vocab_dict, written_file, tokenizer, pc, err, collator, collated,
          call_log, eval_pred, metric_out>>

\* The state of the Trainer's side, untouched while the data is prepared.
trainerVars == <<collator, collated, call_log, eval_pred, metric_out>>

\* ------------------------------------------------------- vocabulary builder

\* " ".join(texts)
RECURSIVE JoinWithSpace(_)
JoinWithSpace(texts) ==
    IF Len(texts) = 0 THEN <<>>
    ELSE IF Len(texts) = 1 THEN texts[1]
    ELSE texts[1] \o <<" ">> \o JoinWithSpace(Tail(texts))

Transcripts(dataset) == [i \in 1..Len(dataset) |-> dataset[i].transcript]

\* The transcripts run together with no separator between them.
RECURSIVE Concat(_)
Concat(texts) == IF Len(texts) = 0 THEN <<>> ELSE texts[1] \o Concat(Tail(texts))

extract_all_chars_no_separator(batch) ==
    [vocab |-> Range(Concat(batch)), all_text |-> Concat(batch)]

\* extract_all_chars over the whole split (batch_size=-1): the joined text
\* and its character set.  list(set(...)) is re-read as a set by make_vocab,
\* so the list's order is not kept here.
extract_all_chars(batch) ==
    LET all_text == JoinWithSpace(batch)
    IN  [vocab |-> Range(all_text), all_text |-> all_text]

\* A vocabulary built from the train split alone.
vocab_union_train_only(vocab_train, vocab_test) == vocab_train.vocab

\* set(vocab_train["vocab"][0]) | set(vocab_test["vocab"][0])
vocab_union(vocab_train, vocab_test) == vocab_train.vocab \cup vocab_test.vocab

\* The orders list(set) may enumerate the set S in: every one of them.
Orders(S) == {o \in [1..Cardinality(S) -> S] :
                 \A i, j \in 1..Cardinality(S) : o[i] = o[j] => i = j}

\* {v: k for k, v in enumerate(vocab_list)}
Enumerate(list) == [c \in Range(list) |-> IndexOf(list, c) - 1]

\* Lines 54-57, once vocab_dict[" "] is known to exist.
ReserveSymbols(d0) ==
    LET d1 == DictSet(d0, DelimToken, d0[" "])
        d2 == DictDel(d1, " ")
        d3 == DictSet(d2, UnkToken, DictLen(d2))
        d4 == DictSet(d3, PadToken, DictLen(d3))
    IN  d4

\* The disk after make_vocab: the dump happens only when the lookup of " "
\* did not raise, and it goes to the fixed file name.
make_vocab_write(disk, found, d) ==
    IF found THEN [disk EXCEPT ![VocabFile] = [exists |-> TRUE, content |-> d]]
    ELSE disk

MakeVocab ==
    /\ pc = "start"
    /\ args.make_vocab
    /\ \E order \in Orders(vocab_union(extract_all_chars(Transcripts(dataset_train)),
                                       extract_all_chars(Transcripts(dataset_test)))) :
         LET d0 == Enumerate(order)
             found == " " \in DOMAIN d0
             d == IF found THEN ReserveSymbols(d0) ELSE d0
         IN  /\ vocab_list' = order
             /\ vocab_dict' = d
             /\ files' = make_vocab_write(files, found, d)
             /\ written_file' = IF found THEN VocabFile ELSE written_file
             /\ pc' = IF found THEN "make_vocab_done" ELSE "failed"
             /\ err' = IF found THEN "none" ELSE "KeyError"
    /\ UNCHANGED <<args, audio_files, dataset_train, dataset_test, tokenizer>>
    /\ UNCHANGED trainerVars

SkipMakeVocab ==
    /\ pc = "start"
    /\ ~args.make_vocab
    /\ pc' = "make_vocab_done"
    /\ UNCHANGED <<args, files, audio_files, dataset_train, dataset_test,
                   vocab_list, vocab_dict, written_file, tokenizer, err>>
    /\ UNCHANGED trainerVars

\* ------------------------------------------------------------- audio loader

\* The two bytes read as an unsigned item.
Int16LE_unsigned(lo, hi) == lo + 256 * hi

\* np.fromfile(dtype=np.int16): whole little-endian two-byte items, two's
\* complement; a trailing odd byte is not an item.
Int16LE(lo, hi) ==
    LET u == lo + 256 * hi
    IN  IF u >= 32768 THEN u - 65536 ELSE u

FromFileInt16(bytes) ==
    [i \in 1..(Len(bytes) \div 2) |-> Int16LE(bytes[2 * i - 1], bytes[2 * i])]

Abs(n) == IF n < 0 THEN -n ELSE n

RECURSIVE BitLen(_)
BitLen(n) == IF n = 0 THEN 0 ELSE 1 + BitLen(n \div 2)

\* n / 2^k rounded to the nearest integer, ties to even (n >= 0, k >= 0).
RoundHalfEven(n, k) ==
    LET q == n \div Pow2(k)
        r == n % Pow2(k)
        twice == 2 * r
    IN  IF twice > Pow2(k) \/ (twice = Pow2(k) /\ q % 2 = 1) THEN q + 1 ELSE q

\* The dyadic m * 2^e in lowest terms (m odd, or 0 * 2^0).
RECURSIVE Normalize(_, _)
Normalize(m, e) ==
    IF m = 0 THEN [m |-> 0, e |-> 0]
    ELSE IF m % 2 = 0 THEN Normalize(m \div 2, e + 1)
    ELSE [m |-> m, e |-> e]

\* .astype(np.single): the nearest float32, which has a 24-bit significand.
AsSingle(n) ==
    LET b == BitLen(Abs(n))
        sign == IF n < 0 THEN -1 ELSE 1
    IN  IF b <= 24 THEN Normalize(n, 0)
        ELSE Normalize(sign * RoundHalfEven(Abs(n), b - 24), b - 24)

\* x / 32768 in float32: 32768 = 2^15, so only the exponent moves.
DivideBy32768(x) == IF x.m = 0 THEN x ELSE [m |-> x.m, e |-> x.e - 15]

\* speech_file_to_array_fn on one record.
speech_file_to_array_fn(batch) ==
    [speech |-> [i \in 1..Len(FromFileInt16(audio_files[batch.audio_path])) |->
                    DivideBy32768(AsSingle(FromFileInt16(audio_files[batch.audio_path])[i]))],
     sampling_rate |-> SamplingRate,
     target_text |-> batch.transcript]

\* dataset.map(speech_file_to_array_fn, remove_columns=...), record by record.
MapSpeech(dataset) == [i \in 1..Len(dataset) |-> speech_file_to_array_fn(dataset[i])]

LoadSpeech ==
    /\ pc = "make_vocab_done"
    /\ dataset_train' = MapSpeech(dataset_train)
    /\ dataset_test' = MapSpeech(dataset_test)
    /\ pc' = "speech_done"
    /\ UNCHANGED <<args, files, audio_files, vocab_list, vocab_dict,
                   written_file, tokenizer, err>>
    /\ UNCHANGED trainerVars

\* ---------------------------------------------------- feature/label encoder

\* A tokenizer whose unknown token is given as the pad token.
TokenizerConfigUnkIsPad ==
    [unk_token |-> PadToken, pad_token |-> PadToken, word_delimiter_token |-> DelimToken]

\* The keyword arguments of the Wav2Vec2CTCTokenizer construction.
TokenizerConfig ==
    [unk_token |-> UnkToken, pad_token |-> PadToken, word_delimiter_token |-> DelimToken]

NoTokenizer == [built |-> FALSE, vocab_file |-> "", encoder |-> EmptyDict,
                unk_token |-> "", pad_token |-> "", word_delimiter_token |-> ""]

\* Wav2Vec2CTCTokenizer(args["vocab_path"], ...): the encoder is the JSON
\* object of the file at the configured path.
BuildTokenizer ==
    /\ pc = "speech_done"
    /\ IF files[args.vocab_path].exists
       THEN /\ tokenizer' = [built |-> TRUE,
                             vocab_file |-> args.vocab_path,
                             encoder |-> files[args.vocab_path].content,
                             unk_token |-> TokenizerConfig.unk_token,
                             pad_token |-> TokenizerConfig.pad_token,
                             word_delimiter_token |-> TokenizerConfig.word_delimiter_token]
            /\ pc' = "tokenizer_done"
            /\ err' = err
       ELSE /\ tokenizer' = tokenizer
            /\ pc' = "failed"
            /\ err' = "FileNotFoundError"
    /\ UNCHANGED <<args, files, audio_files, dataset_train, dataset_test,
                   vocab_list, vocab_dict, written_file>>
    /\ UNCHANGED trainerVars

\* The tokenizer's character-level label path: a space becomes the word
\* delimiter token, each token is looked up in the encoder, and a token the
\* encoder lacks gets the id of the unknown token.
TokenToId(tok, token) ==
    IF token \in DOMAIN tok.encoder THEN tok.encoder[token]
    ELSE tok.encoder[tok.unk_token]

Tokenize(tok, text) ==
    [i \in 1..Len(text) |->
        TokenToId(tok, IF text[i] = " " THEN tok.word_delimiter_token ELSE text[i])]

\* The feature extractor's do_normalize=True: the waveform scaled to zero
\* mean and unit variance, kept symbolic (same length, a new value).
ZeroMeanUnitVar(speech) ==
    [i \in 1..Len(speech) |-> [sample |-> speech[i], zero_mean_unit_var_of |-> speech]]

SamplingRates(batch) == {batch[i].sampling_rate : i \in 1..Len(batch)}

\* prepare_dataset without its assertion: the first record's rate decides.
prepare_dataset_unchecked(tok, batch) ==
    IF batch[1].sampling_rate # SamplingRate
    THEN [error |-> "ValueError", records |-> <<>>]
    ELSE [error |-> "none",
          records |-> [i \in 1..Len(batch) |->
                          [input_values |-> ZeroMeanUnitVar(batch[i].speech),
                           labels |-> Tokenize(tok, batch[i].target_text)]]]

\* prepare_dataset on one processing batch: the assertion, then the feature
\* extractor (which rejects a rate other than its own), then the labels.
prepare_dataset(tok, batch) ==
    IF Cardinality(SamplingRates(batch)) # 1
    THEN [error |-> "AssertionError", records |-> <<>>]
    ELSE IF batch[1].sampling_rate # SamplingRate
    THEN [error |-> "ValueError", records |-> <<>>]
    ELSE [error |-> "none",
          records |-> [i \in 1..Len(batch) |->
                          [input_values |-> ZeroMeanUnitVar(batch[i].speech),
                           labels |-> Tokenize(tok, batch[i].target_text)]]]

\* The processing batches of dataset.map(batched=True, batch_size=4).
NumBatches(dataset) == ((Len(dataset) + PrepareBatchSize) - 1) \div PrepareBatchSize
BatchOf(dataset, k) ==
    SubSeq(dataset, (k - 1) * PrepareBatchSize + 1,
           IF k * PrepareBatchSize < Len(dataset) THEN k * PrepareBatchSize
           ELSE Len(dataset))

\* The whole map: the first failing batch's error, or every record encoded.
MapPrepare(tok, dataset) ==
    LET out(k) == prepare_dataset(tok, BatchOf(dataset, k))
        bad == {k \in 1..NumBatches(dataset) : out(k).error # "none"}
    IN  IF bad # {}
        THEN [error |-> out(CHOOSE k \in bad : \A j \in bad : k <= j).error,
              records |-> <<>>]
        ELSE [error |-> "none",
              records |-> [i \in 1..Len(dataset) |->
                  out(((i - 1) \div PrepareBatchSize) + 1).records[((i - 1) % PrepareBatchSize) + 1]]]

PrepareDataset ==
    /\ pc = "tokenizer_done"
    /\ LET tr == MapPrepare(tokenizer, dataset_train)
           te == MapPrepare(tokenizer, dataset_test)
       IN  IF tr.error # "none"
           THEN /\ pc' = "failed" /\ err' = tr.error
                /\ UNCHANGED <<dataset_train, dataset_test>>
           ELSE IF te.error # "none"
           THEN /\ pc' = "failed" /\ err' = te.error
                /\ dataset_train' = tr.records
                /\ UNCHANGED dataset_test
           ELSE /\ pc' = "prepared" /\ err' = err
                /\ dataset_train' = tr.records
                /\ dataset_test' = te.records
    /\ UNCHANGED <<args, files, audio_files, vocab_list, vocab_dict,
                   written_file, tokenizer>>
    /\ UNCHANGED trainerVars

\* ------------------------------------------------------------ batch collator

\* Python's None, and a set Optional[int] field.
None == [is_none |-> TRUE, value |-> 0]
Some(n) == [is_none |-> FALSE, value |-> n]

\* The feature extractor's padding_value, 0.0.
PaddingValue == [m |-> 0, e |-> 0]
\* The value masked_fill writes over padded label positions.
IgnoreIndex == -100

\* DataCollatorCTCWithPadding(processor=processor, padding=True)
NewCollator(tok) ==
    [processor |-> [tokenizer |-> tok, padding_value |-> PaddingValue],
     padding |-> TRUE,
     max_length |-> None,
     max_length_labels |-> None,
     pad_to_multiple_of |-> None,
     pad_to_multiple_of_labels |-> None]

NoCollator == NewCollator(NoTokenizer)

BuildCollator ==
    /\ pc = "prepared"
    /\ collator' = NewCollator(tokenizer)
    /\ pc' = "collator_ready"
    /\ UNCHANGED <<args, files, audio_files, dataset_train, dataset_test,
                   vocab_list, vocab_dict, written_file, tokenizer, err,
                   collated, call_log, eval_pred, metric_out>>

RECURSIVE Longest(_)
Longest(seqs) ==
    IF Len(seqs) = 0 THEN 0 ELSE Max(Len(seqs[1]), Longest(Tail(seqs)))

\* The length pad() pads to under padding=True: the longest sequence, raised
\* to a multiple of pad_to_multiple_of when that is set.
PaddedLength(seqs, multiple) ==
    LET n == Longest(seqs)
    IN  IF multiple.is_none \/ n % multiple.value = 0 THEN n
        ELSE ((n \div multiple.value) + 1) * multiple.value

\* Right padding of one sequence, and the mask that marks its real positions.
PadRight(seq, n, fill) == [i \in 1..n |-> IF i <= Len(seq) THEN seq[i] ELSE fill]
AttentionMask(seq, n) == [i \in 1..n |-> IF i <= Len(seq) THEN 1 ELSE 0]

\* processor.pad: every sequence padded with fill, and the attention masks.
Pad(seqs, multiple, fill) ==
    LET n == PaddedLength(seqs, multiple)
    IN  [values |-> [i \in 1..Len(seqs) |-> PadRight(seqs[i], n, fill)],
         attention_mask |-> [i \in 1..Len(seqs) |-> AttentionMask(seqs[i], n)]]

\* labels.masked_fill(attention_mask.ne(1), -100)
MaskedFill(rows, mask, value) ==
    [i \in 1..Len(rows) |->
        [j \in 1..Len(rows[i]) |-> IF mask[i][j] # 1 THEN value ELSE rows[i][j]]]

\* The collator without its masked_fill: padded labels keep the pad id.
CollatorCallUnmasked(self, features) ==
    LET input_features == [i \in 1..Len(features) |-> features[i].input_values]
        label_features == [i \in 1..Len(features) |-> features[i].labels]
        padded == Pad(input_features, self.pad_to_multiple_of,
                      self.processor.padding_value)
        tok == self.processor.tokenizer
        labels_batch == Pad(label_features, self.pad_to_multiple_of_labels,
                            tok.encoder[tok.pad_token])
    IN  [input_values |-> padded.values,
         attention_mask |-> padded.attention_mask,
         labels |-> labels_batch.values]

\* DataCollatorCTCWithPadding.__call__
CollatorCall(self, features) ==
    LET input_features == [i \in 1..Len(features) |-> features[i].input_values]
        label_features == [i \in 1..Len(features) |-> features[i].labels]
        padded == Pad(input_features, self.pad_to_multiple_of,
                      self.processor.padding_value)
        tok == self.processor.tokenizer
        labels_batch == Pad(label_features, self.pad_to_multiple_of_labels,
                            tok.encoder[tok.pad_token])
    IN  [input_values |-> padded.values,
         attention_mask |-> padded.attention_mask,
         labels |-> MaskedFill(labels_batch.values, labels_batch.attention_mask,
                               IgnoreIndex)]

\* The Trainer hands the collator the whole encoded split as one batch.
CollateDataset ==
    /\ pc = "collator_ready"
    /\ collated' = CollatorCall(collator, dataset_train)
    /\ pc' = "collated"
    /\ UNCHANGED <<args, files, audio_files, dataset_train, dataset_test,
                   vocab_list, vocab_dict, written_file, tokenizer, err,
                   collator, call_log, eval_pred, metric_out>>

\* What one call leaves behind: the collator object and the examples as they
\* were (the call assigns to neither), and the batch it returns.
CollateEffectSticky(self, examples, idxs) ==
    LET features == [i \in 1..Len(idxs) |-> examples[idxs[i]]]
        longest == Longest([i \in 1..Len(features) |-> features[i].labels])
    IN  [self |-> IF longest = 0 THEN self
                  ELSE [self EXCEPT !.pad_to_multiple_of_labels = Some(longest)],
         examples |-> examples,
         returned |-> CollatorCall(self, features)]

CollateEffect(self, examples, idxs) ==
    [self |-> self,
     examples |-> examples,
     returned |-> CollatorCall(self, [i \in 1..Len(idxs) |-> examples[idxs[i]]])]

\* The Trainer draws examples of the encoded split and calls the collator on
\* them, again and again.
TrainerCollate ==
    /\ pc = "collator_ready"
    /\ Len(call_log) < MaxCalls
    /\ \E idxs \in UNION {[1..n -> 1..Len(dataset_train)] : n \in 1..MaxCallBatch} :
         LET after == CollateEffect(collator, dataset_train, idxs)
         IN  /\ collator' = after.self
             /\ dataset_train' = after.examples
             /\ collated' = after.returned
             /\ call_log' = Append(call_log,
                    [features |-> [i \in 1..Len(idxs) |-> dataset_train[idxs[i]]],
                     returned |-> after.returned])
    /\ UNCHANGED <<args, files, audio_files, dataset_test, vocab_list, vocab_dict,
                   written_file, tokenizer, pc, err, eval_pred, metric_out>>

\* ------------------------------------------------------------ compute_metrics

\* np.argmax over the vocabulary axis: the first index of the largest score,
\* as a zero-based id.
RECURSIVE Largest(_)
Largest(v) == IF Len(v) = 1 THEN v[1] ELSE Max(v[1], Largest(Tail(v)))

ArgMax(v) ==
    (CHOOSE i \in 1..Len(v) :
        v[i] = Largest(v) /\ \A j \in 1..(i - 1) : v[j] # Largest(v)) - 1

\* The tokenizer's id -> token table, the unknown token for an id it lacks.
IdToToken(tok, id) ==
    IF \E k \in DOMAIN tok.encoder : tok.encoder[k] = id
    THEN CHOOSE k \in DOMAIN tok.encoder : tok.encoder[k] = id
    ELSE tok.unk_token

\* Consecutive equal tokens collapsed to one.
RECURSIVE GroupTokens(_)
GroupTokens(tokens) ==
    IF Len(tokens) <= 1 THEN tokens
    ELSE IF tokens[1] = tokens[2] THEN GroupTokens(Tail(tokens))
    ELSE <<tokens[1]>> \o GroupTokens(Tail(tokens))

RECURSIVE WithoutToken(_, _)
WithoutToken(tokens, t) ==
    IF Len(tokens) = 0 THEN <<>>
    ELSE IF tokens[1] = t THEN WithoutToken(Tail(tokens), t)
    ELSE <<tokens[1]>> \o WithoutToken(Tail(tokens), t)

\* str.strip() on a text of pieces.
RECURSIVE StripLeft(_)
StripLeft(text) ==
    IF Len(text) > 0 /\ text[1] = " " THEN StripLeft(Tail(text)) ELSE text

RECURSIVE StripRight(_)
StripRight(text) ==
    IF Len(text) > 0 /\ text[Len(text)] = " "
    THEN StripRight(SubSeq(text, 1, Len(text) - 1)) ELSE text

\* The tokenizer's decode of one row of ids: tokens, grouped or not, pad
\* tokens dropped, the delimiter turned into a space, joined and stripped.
Decode(tok, ids, group_tokens) ==
    LET tokens == [i \in 1..Len(ids) |-> IdToToken(tok, ids[i])]
        grouped == IF group_tokens THEN GroupTokens(tokens) ELSE tokens
        filtered == WithoutToken(grouped, tok.pad_token)
    IN  StripRight(StripLeft(
            [i \in 1..Len(filtered) |->
                IF filtered[i] = tok.word_delimiter_token THEN " " ELSE filtered[i]]))

BatchDecode(tok, rows, group_tokens) ==
    [r \in 1..Len(rows) |-> Decode(tok, rows[r], group_tokens)]

\* pred.label_ids[pred.label_ids == -100] = pad_token_id
ReplaceIgnored(rows, pad_id) ==
    [r \in 1..Len(rows) |->
        [i \in 1..Len(rows[r]) |-> IF rows[r][i] = IgnoreIndex THEN pad_id ELSE rows[r][i]]]

PredIds(predictions) ==
    [r \in 1..Len(predictions) |->
        [i \in 1..Len(predictions[r]) |-> ArgMax(predictions[r][i])]]

\* compute_metrics with the labels decoded like the predictions.
compute_metrics_grouping_labels(pred, tok) ==
    LET label_ids == ReplaceIgnored(pred.label_ids, tok.encoder[tok.pad_token])
        pred_str == BatchDecode(tok, PredIds(pred.predictions), TRUE)
        label_str == BatchDecode(tok, label_ids, TRUE)
    IN  [label_ids |-> label_ids, pred_str |-> pred_str, label_str |-> label_str,
         cer |-> [predictions |-> pred_str, references |-> label_str]]

\* compute_metrics: what it leaves in pred.label_ids, the two decoded texts,
\* and the character error rate as the metric's arguments.
compute_metrics(pred, tok) ==
    LET label_ids == ReplaceIgnored(pred.label_ids, tok.encoder[tok.pad_token])
        pred_str == BatchDecode(tok, PredIds(pred.predictions), TRUE)
        label_str == BatchDecode(tok, label_ids, FALSE)
    IN  [label_ids |-> label_ids, pred_str |-> pred_str, label_str |-> label_str,
         cer |-> [predictions |-> pred_str, references |-> label_str]]

ComputeMetrics ==
    /\ pc = "evaluating"
    /\ LET out == compute_metrics(eval_pred, tokenizer)
       IN  /\ eval_pred' = [eval_pred EXCEPT !.label_ids = out.label_ids]
           /\ metric_out' = [pred_str |-> out.pred_str, label_str |-> out.label_str,
                             cer |-> out.cer]
    /\ pc' = "metrics_done"
    /\ UNCHANGED <<args, files, audio_files, dataset_train, dataset_test,
                   vocab_list, vocab_dict, written_file, tokenizer, err,
                   collator, collated, call_log>>

\* ------------------------------------------------------------ train(), start

InitialDisk == {[p \in VocabPaths |-> [exists |-> FALSE, content |-> EmptyDict]],
                [p \in VocabPaths |-> [exists |-> TRUE, content |-> OldVocab]]}

Init ==
    /\ args \in [make_vocab : BOOLEAN, vocab_path : VocabPaths]
    /\ files \in InitialDisk
    /\ audio_files = [p \in {AudioPath} |-> PipelineAudio]
    /\ dataset_train \in RawSplits
    /\ dataset_test \in RawSplits
    /\ vocab_list = <<>>
    /\ vocab_dict = EmptyDict
    /\ written_file = ""
    /\ tokenizer = NoTokenizer
    /\ pc = "start"
    /\ err = "none"
    /\ collator = NoCollator
    /\ collated = <<>>
    /\ call_log = <<>>
    /\ eval_pred = <<>>
    /\ metric_out = <<>>

Next ==
    \/ MakeVocab
    \/ SkipMakeVocab
    \/ LoadSpeech
    \/ BuildTokenizer
    \/ PrepareDataset
    \/ BuildCollator

Spec == Init /\ [][Next]_vars

\* ------------------------------------------------- vocabulary: the claims

\* make_vocab has completed and train() has not yet rewritten the splits.
VocabJustBuilt == pc = "make_vocab_done" /\ args.make_vocab

\* Characters of the transcripts of both splits, as the records hold them.
TranscriptChars ==
    UNION {Range(dataset_train[i].transcript) : i \in 1..Len(dataset_train)}
    \cup UNION {Range(dataset_test[i].transcript) : i \in 1..Len(dataset_test)}

\* What the JSON file make_vocab wrote holds.
Serialized == files[VocabFile].content

Ids(d) == {d[k] : k \in DOMAIN d}

\* C1: whenever make_vocab completes, the serialized vocabulary has N entries
\* with ids exactly 0..N-1, no two symbols share an id, "|" is a key, " " is
\* not, and "[UNK]" and "[PAD]" hold the two highest ids N-2 and N-1; also
\* when a transcript contains "|".
C1_VocabDense ==
    VocabJustBuilt =>
        /\ Ids(Serialized) = 0..(DictLen(Serialized) - 1)
        /\ \A k1, k2 \in DOMAIN Serialized :
              Serialized[k1] = Serialized[k2] => k1 = k2
        /\ DelimToken \in DOMAIN Serialized
        /\ " " \notin DOMAIN Serialized
        /\ Serialized[UnkToken] = DictLen(Serialized) - 2
        /\ Serialized[PadToken] = DictLen(Serialized) - 1

\* " " replaced by "|" in a set of characters.
SpaceReplaced(S) == IF " " \in S THEN (S \ {" "}) \cup {DelimToken} ELSE S

\* The id enumerate() gave the space.
SpaceId == IndexOf(vocab_list, " ") - 1

\* C2 as stated: the symbols are exactly the characters of the transcripts of
\* either split, the space replaced by "|" under the space's id, plus "[UNK]"
\* and "[PAD]"; nothing else is added.
C2_SymbolsOfTranscripts ==
    VocabJustBuilt =>
        /\ DOMAIN Serialized = SpaceReplaced(TranscriptChars) \cup {UnkToken, PadToken}
        /\ " " \in TranscriptChars => Serialized[DelimToken] = SpaceId

\* The separator " ".join puts between the transcripts of a split.
JoinSeparators ==
    IF Len(dataset_train) >= 2 \/ Len(dataset_test) >= 2 THEN {" "} ELSE {}

\* C2 amended: the symbols are exactly the characters of the transcripts of
\* either split together with the space that joins the transcripts of a split
\* of two or more, the space replaced by "|" under the space's id, plus
\* "[UNK]" and "[PAD]".
C2_SymbolsOfJoinedText ==
    VocabJustBuilt =>
        /\ DOMAIN Serialized =
              SpaceReplaced(TranscriptChars \cup JoinSeparators) \cup {UnkToken, PadToken}
        /\ Serialized[DelimToken] = SpaceId

\* A vocabulary holding "|" although no transcript holds a space, with a
\* character that only the test split has.
C2_Witness ==
    /\ VocabJustBuilt
    /\ " " \notin TranscriptChars
    /\ DelimToken \in DOMAIN Serialized
    /\ "a" \in DOMAIN Serialized
    /\ \A i \in 1..Len(dataset_train) : "a" \notin Range(dataset_train[i].transcript)

\* C7: with make_vocab enabled, the file the tokenizer is constructed from is
\* the file make_vocab wrote, holding what make_vocab wrote, whatever
\* vocab_path is configured.
C7_TokenizerReadsWrittenVocab ==
    (args.make_vocab /\ tokenizer.built) =>
        /\ tokenizer.vocab_file = written_file
        /\ tokenizer.encoder = vocab_dict

\* What the claim says one character of a transcript is encoded as.
ExpectedId(c) ==
    IF c = " " THEN tokenizer.encoder[DelimToken]
    ELSE IF c \in DOMAIN tokenizer.encoder THEN tokenizer.encoder[c]
    ELSE tokenizer.encoder[UnkToken]

LabelsMatch(before, after) ==
    /\ Len(after) = Len(before)
    /\ \A i \in 1..Len(before) :
          /\ Len(after[i].labels) = Len(before[i].target_text)
          /\ \A j \in 1..Len(before[i].target_text) :
                after[i].labels[j] = ExpectedId(before[i].target_text[j])

NoSpaceInJoinedText ==
    /\ Len(dataset_train) <= 1
    /\ Len(dataset_test) <= 1
    /\ " " \notin TranscriptChars

\* C10: make_vocab fails with a lookup error exactly when the joined text of
\* neither split holds a space; it fails before the file is opened, so the
\* disk stays as it was; with two or more transcripts in a split it does not
\* fail this way.
C10_MissingSpaceFailsBeforeWrite ==
    /\ [](/\ (pc = "failed" /\ err = "KeyError") => NoSpaceInJoinedText
          /\ VocabJustBuilt => ~NoSpaceInJoinedText
          /\ (Len(dataset_train) >= 2 \/ Len(dataset_test) >= 2) => err # "KeyError")
    /\ [][(pc = "start" /\ args.make_vocab /\ NoSpaceInJoinedText) =>
             (pc' = "failed" /\ err' = "KeyError" /\ files' = files
              /\ written_file' = written_file)]_vars

\* make_vocab failed on the lookup while an older vocab.json was on disk.
C10_Witness ==
    /\ pc = "failed"
    /\ err = "KeyError"
    /\ files[VocabFile].exists
    /\ files[VocabFile].content = OldVocab

\* ------------------------------------------------------ audio loader alone

\* Byte values the raw PCM files are made of.
Bytes == {0, 1, 127, 128, 255}

\* Raw PCM buffers: whole 16-bit items.
PcmBuffers == {b \in SeqsUpTo(Bytes, 2 * MaxSamples) : Len(b) % 2 = 0}

OldDisk == [p \in VocabPaths |-> [exists |-> TRUE, content |-> OldVocab]]

OldTokenizer ==
    [built |-> TRUE, vocab_file |-> VocabFile, encoder |-> OldVocab,
     unk_token |-> TokenizerConfig.unk_token, pad_token |-> TokenizerConfig.pad_token,
     word_delimiter_token |-> TokenizerConfig.word_delimiter_token]

InitAudio ==
    /\ args = [make_vocab |-> FALSE, vocab_path |-> VocabFile]
    /\ files = OldDisk
    /\ audio_files \in {[p \in {AudioPath} |-> b] : b \in PcmBuffers}
    /\ dataset_train = <<RawRecord(<<"a", "|">>)>>
    /\ dataset_test = <<RawRecord(<<>>)>>
    /\ vocab_list = <<>>
    /\ vocab_dict = EmptyDict
    /\ written_file = ""
    /\ tokenizer = NoTokenizer
    /\ pc = "make_vocab_done"
    /\ err = "none"
    /\ collator = NoCollator
    /\ collated = <<>>
    /\ call_log = <<>>
    /\ eval_pred = <<>>
    /\ metric_out = <<>>

NextAudio == LoadSpeech

SpecAudio == InitAudio /\ [][NextAudio]_vars

\* The signed 16-bit sample the item at position i of a buffer stands for.
SampleAt(bytes, i) ==
    ((bytes[2 * i - 1] + 256 * bytes[2 * i] + 32768) % 65536) - 32768

\* np.round(x * 32768) for a float32 x: the product only moves the exponent,
\* the rounding is to the nearest integer, ties to even.
RoundTimes32768(x) ==
    IF x.e + 15 >= 0 THEN x.m * Pow2(x.e + 15)
    ELSE IF x.m < 0 THEN -RoundHalfEven(-x.m, -(x.e + 15))
    ELSE RoundHalfEven(x.m, -(x.e + 15))

SpeechMatches(record, bytes) ==
    /\ Len(record.speech) = Len(bytes) \div 2
    /\ record.sampling_rate = 16000
    /\ \A i \in 1..Len(record.speech) :
          LET x == record.speech[i]
              s == SampleAt(bytes, i)
          IN  /\ s \in -32768..32767
              \* x = s / 32768
              /\ x.e + 15 >= 0
              /\ x.m * Pow2(x.e + 15) = s
              \* -1 <= x < 1
              /\ x.e <= 0
              /\ -Pow2(-x.e) <= x.m
              /\ x.m < Pow2(-x.e)
              /\ RoundTimes32768(x) = s

\* C5: every output sample is the signed 16-bit sample divided by 32768,
\* lies in [-1, 1), and times 32768, rounded, is the sample again; length and
\* order are the input's, and the sampling rate is 16000.
C5_SamplesScaledBy32768 ==
    pc = "speech_done" =>
        /\ \A i \in 1..Len(dataset_train) :
              SpeechMatches(dataset_train[i], audio_files[AudioPath])
        /\ \A i \in 1..Len(dataset_test) :
              SpeechMatches(dataset_test[i], audio_files[AudioPath])

\* A file holding the samples -32768 and 32767, loaded as -1.0 and
\* 32767/32768.
C5_Witness ==
    /\ pc = "speech_done"
    /\ audio_files[AudioPath] = <<0, 128, 255, 127>>
    /\ dataset_train[1].speech = <<[m |-> -1, e |-> 0], [m |-> 32767, e |-> -15]>>

\* ---------------------------------------------------- prepare_dataset alone

\* Loaded records whose sampling_rate column varies.
LoadedRecord(rate) ==
    [speech |-> <<[m |-> 1, e |-> -1]>>, sampling_rate |-> rate, target_text |-> <<"a">>]

LoadedSplits ==
    UNION {[1..n -> {LoadedRecord(rate) : rate \in {SamplingRate, 8000}}] :
              n \in 1..MaxLoaded}

InitPrepare ==
    /\ args = [make_vocab |-> FALSE, vocab_path |-> VocabFile]
    /\ files = OldDisk
    /\ audio_files = [p \in {AudioPath} |-> PipelineAudio]
    /\ dataset_train \in LoadedSplits
    /\ dataset_test \in LoadedSplits
    /\ vocab_list = <<>>
    /\ vocab_dict = EmptyDict
    /\ written_file = ""
    /\ tokenizer = OldTokenizer
    /\ pc = "tokenizer_done"
    /\ err = "none"
    /\ collator = NoCollator
    /\ collated = <<>>
    /\ call_log = <<>>
    /\ eval_pred = <<>>
    /\ metric_out = <<>>

NextPrepare == PrepareDataset

SpecPrepare == InitPrepare /\ [][NextPrepare]_vars

MixedRates(records) ==
    \E i, j \in 1..Len(records) : records[i].sampling_rate # records[j].sampling_rate

AllAtRate(records) ==
    \A i \in 1..Len(records) : records[i].sampling_rate = SamplingRate

\* The first processing batch of the split that cannot be encoded is one
\* whose records do not share a sampling rate.
FirstBadBatchIsMixed(dataset) ==
    \E k \in 1..NumBatches(dataset) :
        /\ MixedRates(BatchOf(dataset, k))
        /\ \A j \in 1..(k - 1) : AllAtRate(BatchOf(dataset, j))

\* C6: a processing batch whose records do not share one sampling rate makes
\* prepare_dataset fail with the assertion's error before anything of the
\* batch is encoded: the split keeps its records, without input_values or
\* labels.
C6_MixedRatesFailFast ==
    [][pc = "tokenizer_done" =>
          /\ FirstBadBatchIsMixed(dataset_train) =>
                /\ pc' = "failed"
                /\ err' = "AssertionError"
                /\ dataset_train' = dataset_train
                /\ dataset_test' = dataset_test
          /\ (AllAtRate(dataset_train) /\ FirstBadBatchIsMixed(dataset_test)) =>
                /\ pc' = "failed"
                /\ err' = "AssertionError"
                /\ dataset_test' = dataset_test]_vars

\* The assertion has fired on a train split of mixed rates, still unencoded.
C6_Witness ==
    /\ pc = "failed"
    /\ err = "AssertionError"
    /\ "sampling_rate" \in DOMAIN dataset_train[1]
    /\ MixedRates(dataset_train)
    /\ dataset_train[1].sampling_rate = SamplingRate

\* ---------------------------------------------------------- collator alone

\* Encoded examples: input values of 0.5, label ids 0 and 1, either sequence
\* possibly empty.
Examples(maxInput, maxLabel) ==
    [input_values : SeqsUpTo({[m |-> 1, e |-> -1]}, maxInput),
     labels : SeqsUpTo({0, 1}, maxLabel)]

EncodedSplits ==
    UNION {[1..n -> Examples(MaxInputLen, MaxLabelLen)] : n \in 1..MaxBatch}

InitTrainer(train) ==
    /\ args = [make_vocab |-> FALSE, vocab_path |-> VocabFile]
    /\ files = OldDisk
    /\ audio_files = [p \in {AudioPath} |-> PipelineAudio]
    /\ dataset_train \in train
    /\ dataset_test = <<[input_values |-> <<>>, labels |-> <<>>]>>
    /\ vocab_list = <<>>
    /\ vocab_dict = EmptyDict
    /\ written_file = ""
    /\ tokenizer = OldTokenizer
    /\ err = "none"
    /\ collator = NewCollator(OldTokenizer)
    /\ collated = <<>>
    /\ call_log = <<>>
    /\ metric_out = <<>>

InitCollate ==
    /\ InitTrainer(EncodedSplits)
    /\ pc = "collator_ready"
    /\ eval_pred = <<>>

NextCollate == CollateDataset

SpecCollate == InitCollate /\ [][NextCollate]_vars

\* The largest of a non-empty set of lengths.
Greatest(S) == CHOOSE n \in S : \A m \in S : m <= n

\* Row i of a padded tensor: as long as the longest sequence of the list, the
\* example's own values first, the fill after them.
RowPadded(row, own, width, fill) ==
    /\ Len(row) = width
    /\ \A j \in 1..width : row[j] = IF j <= Len(own) THEN own[j] ELSE fill

\* C3: every input row is as long as the longest input of the list and every
\* label row as long as the longest label sequence; a row holds the example's
\* own values in order and after them 0.0 (inputs) or -100 (labels); an empty
\* label sequence gives a row of -100 only.
C3_RowsPaddedToLongest ==
    pc = "collated" =>
        LET n == Len(dataset_train)
            inputWidth == Greatest({Len(dataset_train[i].input_values) : i \in 1..n})
            labelWidth == Greatest({Len(dataset_train[i].labels) : i \in 1..n})
        IN  /\ Len(collated.input_values) = n
            /\ Len(collated.labels) = n
            /\ \A i \in 1..n :
                  /\ RowPadded(collated.input_values[i], dataset_train[i].input_values,
                               inputWidth, [m |-> 0, e |-> 0])
                  /\ RowPadded(collated.labels[i], dataset_train[i].labels,
                               labelWidth, -100)

\* Label rows [0, 1] and [-100, -100] (an empty label sequence), and an input
\* row of one value padded to two.
C3_Witness ==
    /\ pc = "collated"
    /\ collated.labels = << <<0, 1>>, <<-100, -100>> >>
    /\ Len(dataset_train[1].input_values) = 1
    /\ collated.input_values[1] = <<[m |-> 1, e |-> -1], [m |-> 0, e |-> 0]>>

\* -------------------------------------------------- collator under repeated calls

\* The encoded split the Trainer draws from: two examples of these.
CallExamples ==
    {[input_values |-> <<[m |-> 1, e |-> -1]>>, labels |-> <<0>>],
     [input_values |-> <<[m |-> 1, e |-> -1], [m |-> 1, e |-> -1]>>, labels |-> <<0, 1>>],
     [input_values |-> <<>>, labels |-> <<>>]}

InitCalls ==
    /\ InitTrainer([1..2 -> CallExamples])
    /\ pc = "collator_ready"
    /\ eval_pred = <<>>

NextCalls == TrainerCollate

SpecCalls == InitCalls /\ [][NextCalls]_vars

ScoreVectors ==
    {[k \in 1..DictLen(OldVocab) |-> IF k = hot THEN 1 ELSE 0] : hot \in 0..DictLen(OldVocab)}

InitMetrics ==
    /\ InitTrainer({<<[input_values |-> <<>>, labels |-> <<>>]>>})
    /\ pc = "evaluating"
    /\ eval_pred \in [predictions : {<<row>> : row \in SeqsUpTo(ScoreVectors, MaxFrames)},
                      label_ids : {<<row>> : row \in SeqsUpTo(Ids(OldVocab) \cup {-100},
                                                               MaxLabels)}]

NextMetrics == ComputeMetrics

SpecMetrics == InitMetrics /\ [][NextMetrics]_vars

\* The id the claim says a frame decodes to: the highest-scoring one.
HighestId(scores) ==
    (CHOOSE k \in 1..Len(scores) :
        \A j \in 1..Len(scores) :
            scores[k] >= scores[j] /\ (j < k => scores[j] < scores[k])) - 1

SymbolOf(id) == CHOOSE k \in DOMAIN tokenizer.encoder : tokenizer.encoder[k] = id

\* The k-th smallest member of a set of positions.
Nth(positions, k) ==
    CHOOSE i \in positions : Cardinality({j \in positions : j < i}) = k - 1

\* The text of the ids at the kept positions, in order, "|" read as a space,
\* without the spaces at either end.
TextOf(ids, kept) ==
    LET piece(i) == IF SymbolOf(ids[i]) = "|" THEN " " ELSE SymbolOf(ids[i])
        inner == {i \in kept : piece(i) # " "}
        shown == {i \in kept : \E a, b \in inner : a <= i /\ i <= b}
    IN  [k \in 1..Cardinality(shown) |-> piece(Nth(shown, k))]

\* C9: predictions decode from the highest-scoring id of each frame with runs
\* of one id collapsed to one; labels decode position by position, nothing
\* collapsed, after every -100 became the pad id; pad ids give no text; so two
\* equal adjacent label ids keep both their characters.
C9_OnlyPredictionsAreGrouped ==
    [][pc = "evaluating" =>
          LET pad_id == tokenizer.encoder["[PAD]"]
              frames == eval_pred.predictions[1]
              ids == [i \in 1..Len(frames) |-> HighestId(frames[i])]
              before == eval_pred.label_ids[1]
              after == eval_pred'.label_ids[1]
          IN  /\ Len(after) = Len(before)
              /\ \A i \in 1..Len(before) :
                    after[i] = IF before[i] = -100 THEN pad_id ELSE before[i]
              /\ metric_out'.pred_str[1] =
                    TextOf(ids, {i \in 1..Len(ids) :
                                    ids[i] # pad_id /\ (i = 1 \/ ids[i] # ids[i - 1])})
              /\ metric_out'.label_str[1] =
                    TextOf(after, {i \in 1..Len(after) : after[i] # pad_id})]_vars

\* Two frames and two labels, all of the id of "a": the prediction decodes to
\* one "a", the reference keeps both.
C9_Witness ==
    /\ pc = "metrics_done"
    /\ Len(eval_pred.predictions[1]) = 2
    /\ eval_pred.label_ids[1] = <<0, 0>>
    /\ metric_out.pred_str[1] = <<"a">>
    /\ metric_out.label_str[1] = <<"a", "a">>

====
